---- MODULE Spec2Model ----
(***************************************************************************)
(* TotesMessenger (totes.py, settings.py): the polling loop that resolves  *)
(* new submissions into Source/Link pairs, persists them, batches the      *)
(* Sources to notify and posts or edits one reply per Source.              *)
(*                                                                         *)
(* Strings are opaque in TLA+, so the few string operations of the code    *)
(* (lower(), the path regular expression, ORDER BY) are tables over the    *)
(* strings of the model's universe.  A URL is the sequence of its path     *)
(* segments; a Source id "t3_abc123" is the pair <<"t3", "abc123">>.       *)
(***************************************************************************)
EXTENDS Integers, Sequences, FiniteSets, TLC

\* ------------------------------------------------------------------ bounds
MaxFeed == 2            \* submissions that ever reach the feed
MaxLinks == 42          \* Link rows stored for one Source when a body is rendered

\* ------------------------------------------------------- program constants
LIMIT == 25             \* settings.LIMIT: submissions fetched per cycle
LINKS_BEFORE_TITLE_CUTOFF == 40     \* settings.LINKS_BEFORE_TITLE_CUTOFF
TITLE_LIMIT == 137      \* settings.TITLE_LIMIT = 140 - 3
None == "None"          \* Python None in a text attribute or column
NoReply == 0            \* Python None in Source.reply; reply names are 1, 2, ...

\* ------------------------------------------------------------ the universe
\* str.lower() on the strings of the universe.
lower(s) ==
    CASE s = "RA_AutoMod" -> "ra_automod"
      [] s = "Relationship_Advice" -> "relationship_advice"
      [] s = "Drama" -> "drama"
      [] s = "Alice" -> "alice"
      [] s = "Erin" -> "erin"
      [] s = "Some_Title" -> "some_title"
      [] OTHER -> s

\* The strings that match [a-z0-9]{6,8}.
Base36 == {"abc123", "def4567", "ghi7890"}

\* The listing entries the feed can deliver (praw Submission objects):
\* name, created_utc (the order of submission), subreddit.display_name,
\* author (None when deleted), title, permalink and the url linked to.
SubmissionNames == {"t3_lnk001", "t3_lnk002", "t3_lnk003", "t3_lnk004",
                    "t3_lnk005", "t3_lnk006"}

submission(name) ==
    CASE name = "t3_lnk001" ->
           [name |-> name, created_utc |-> 1, subreddit |-> "RA_AutoMod", author |-> "Alice",
            title |-> "Advice wanted", permalink |-> "/r/RA_AutoMod/comments/lnk001/",
            url |-> <<"r", "Relationship_Advice", "comments", "abc123", "Some_Title">>]
      [] name = "t3_lnk002" ->
           [name |-> name, created_utc |-> 2, subreddit |-> "Drama", author |-> "bob",
            title |-> "Look at this", permalink |-> "/r/Drama/comments/lnk002/",
            url |-> <<"r", "relationship_advice", "comments", "abc123", "some_title">>]
      [] name = "t3_lnk003" ->
           [name |-> name, created_utc |-> 3, subreddit |-> "Drama", author |-> "carol",
            title |-> "Best answer", permalink |-> "/r/Drama/comments/lnk003/",
            url |-> <<"r", "askreddit", "comments", "def4567", "a_question", "ghi7890">>]
      [] name = "t3_lnk004" ->
           [name |-> name, created_utc |-> 4, subreddit |-> "ra_automod", author |-> "dave",
            title |-> "Cross post", permalink |-> "/r/ra_automod/comments/lnk004/",
            url |-> <<"r", "askreddit", "comments", "def4567", "a_question", "ghi7890">>]
      [] name = "t3_lnk005" ->
           [name |-> name, created_utc |-> 5, subreddit |-> "ra_automod", author |-> None,
            title |-> "Gone", permalink |-> "/r/ra_automod/comments/lnk005/",
            url |-> <<"r", "relationship_advice", "comments", "abc123", "some_title">>]
      [] OTHER ->
           [name |-> name, created_utc |-> 6, subreddit |-> "ra_automod", author |-> "frank",
            title |-> "My profile", permalink |-> "/r/ra_automod/comments/lnk006/",
            url |-> <<"user", "frank">>]

\* The feed entries whose author may delete them after they were posted.
Deletable == {"t3_lnk001"}

\* The listing entry as the site delivers it once the names in gone were
\* deleted by their authors: submission.author is None.
listed_submission(name, gone) ==
    IF name \in gone
    THEN [submission(name) EXCEPT !.author = None]
    ELSE submission(name)

\* The threads and comments of the site a Source id resolves to: author
\* (None when deleted) and title (comments have no title attribute).
SourceIds == {<<"t3", "abc123">>, <<"t1", "ghi7890">>}

thread(id) ==
    IF id = <<"t3", "abc123">>
    THEN [author |-> "Erin", has_title |-> TRUE, title |-> "Some title"]
    ELSE [author |-> None, has_title |-> FALSE, title |-> None]

\* Titles of TITLE_LIMIT characters and of one more.
Title137 ==
    "0123456789012345678901234567890123456789012345678901234567890123456789"
    \o "0123456789012345678901234567890123456789012345678901234567890123456"

Title138 == Title137 \o "7"

\* The order of the strings ORDER BY compares (SQLite BINARY collation).
Collation == <<Title137, Title138, "Advice wanted", "Best answer", "Cross post", "Gone",
               "Look at this", "My profile", "drama", "ra_automod">>

StrRank(s) == CHOOSE i \in 1..Len(Collation) : Collation[i] = s

\* ------------------------------------------------------------------- state
VARIABLES
    TEST,           \* settings.TEST, read from the environment at import
    np_defined,     \* whether the name np, called by _render_comment, resolves
    feed,           \* reddit.domain('reddit.com').new(): names, newest first
    too_new,        \* how many of the newest entries are younger than POST_TIME
    archived,       \* Source ids whose external submission is archived
    deleted,        \* feed entries whose author deleted it since it was posted
    replies,        \* the site: the replies created, [parent, body, edited], by name
    db_users,       \* table users: rows [name, skip_source, skip_link]
    db_subreddits,  \* table subreddits: rows [name, skip_source, skip_link]
    db_sources,     \* table sources: id -> [reply, subreddit, author, title, skip]
    db_links,       \* table links: id -> [source, permalink, subreddit, skip, author, title]
    pc,             \* __main__: "run" (about to call run()), "resolve", "dispatch",
                    \*   "sleep" (run() is over) or "exited"
    submissions,    \* run(): the candidates of this cycle not yet handled
    sources,        \* run(): the set of Source objects to notify
    log,            \* run(): what this cycle decided for each candidate it handled
    notified,       \* run(): the calls of post_reply in this cycle, [source, result]
    run_result,     \* how the last call of run() ended: "Done", "raised" or "none"
    exit_cause,     \* why the process exited: "none" while it runs
    teardown        \* the teardown steps executed before exit

vars == <<TEST, np_defined, feed, too_new, archived, deleted, replies, db_users,
          db_subreddits, db_sources, db_links, pc, submissions, sources, log,
          notified, run_result, exit_cause, teardown>>

\* ---------------------------------------------------------------- helpers
\* urlparse(url.lower()).path, as path segments.
path_of(url) == [i \in DOMAIN url |-> lower(url[i])]

\* PATH_REGEX.match(path): ^/r/([^/]+)/comments/([a-z0-9]{6,8}) ...
PATH_REGEX(path) ==
    /\ Len(path) >= 4
    /\ path[1] = "r"
    /\ path[3] = "comments"
    /\ path[4] \in Base36

\* ... (/[^/]+/([a-z0-9]{6,8}))? : the optional comment group matched.
comment_group(path) == Len(path) >= 6 /\ path[6] \in Base36

\* source_exists(id) and link_exists(id): SELECT 1 ... WHERE id=?
source_exists(tbl, id) == id \in DOMAIN tbl

link_exists(tbl, id) == id \in DOMAIN tbl

\* A table with the row of key id inserted or replaced.
Upsert(tbl, id, row) ==
    [k \in DOMAIN tbl \cup {id} |-> IF k = id THEN row ELSE tbl[k]]

\* ------------------------------------------------------------ class Source
\* Source._parse_path; the caller raises NotAComment when PATH_REGEX fails.
parse_path(path) ==
    IF comment_group(path)
    THEN [id |-> <<"t1", path[6]>>, subreddit |-> path[2]]
    ELSE [id |-> <<"t3", path[4]>>, subreddit |-> path[2]]

\* Source.__init__; cached is whether _submission holds the fetched resource.
Source(url) ==
    LET p == parse_path(path_of(url))
    IN  [id |-> p.id, subreddit |-> p.subreddit, cached |-> FALSE,
         author |-> None, title |-> None, reply |-> NoReply,
         skip |-> FALSE, is_new |-> TRUE]

\* Source.is_comment
is_comment(self) == self.id[1] = "t1"

\* Source.base36
base36(self) == self.id[2]

\* Source.load fetches the external submission exactly when no row exists.
load_fetches(self, tbl) == ~source_exists(tbl, self.id)

\* Source.load with a bug: the stored reply is not hydrated.
Source_load_forgets_reply(self, tbl) ==
    IF source_exists(tbl, self.id)
    THEN [self EXCEPT !.subreddit = tbl[self.id].subreddit,
                      !.author = tbl[self.id].author,
                      !.title = tbl[self.id].title,
                      !.skip = tbl[self.id].skip,
                      !.is_new = FALSE]
    ELSE [self EXCEPT !.cached = TRUE,
                      !.author = IF self.author = None /\ thread(self.id).author # None
                                 THEN lower(thread(self.id).author)
                                 ELSE "[deleted]",
                      !.title = IF thread(self.id).has_title
                                THEN thread(self.id).title
                                ELSE "[comment]"]

\* Source.load, the external fetch having succeeded where one is made.
Source_load(self, tbl) ==
    IF source_exists(tbl, self.id)
    THEN [self EXCEPT !.reply = tbl[self.id].reply,
                      !.subreddit = tbl[self.id].subreddit,
                      !.author = tbl[self.id].author,
                      !.title = tbl[self.id].title,
                      !.skip = tbl[self.id].skip,
                      !.is_new = FALSE]
    ELSE [self EXCEPT !.cached = TRUE,
                      !.author = IF self.author = None /\ thread(self.id).author # None
                                 THEN lower(thread(self.id).author)
                                 ELSE "[deleted]",
                      !.title = IF thread(self.id).has_title
                                THEN thread(self.id).title
                                ELSE "[comment]"]

\* SELECT * FROM users|subreddits WHERE name = ? AND skip_source = TRUE
skip_source_row(tbl, name) == \E r \in tbl : r.name = name /\ r.skip_source

\* SELECT * FROM users|subreddits WHERE name = ? AND skip_link = TRUE
skip_link_row(tbl, name) == \E r \in tbl : r.name = name /\ r.skip_link

\* Source.check_skip reaches self.submission.archived: neither the latch nor
\* a preference row returned earlier.
reaches_archived(self, users, subs) ==
    /\ ~self.skip
    /\ ~skip_source_row(users, self.author)
    /\ ~skip_source_row(subs, self.subreddit)

\* Source.check_skip fetches the external submission (and may raise).
check_skip_fetches(self, users, subs) ==
    reaches_archived(self, users, subs) /\ ~self.cached

\* Source.check_skip with a bug: the archived flag is not looked at.
Source_check_skip_ignores_archived(self, users, subs, arch) ==
    IF self.skip THEN TRUE
    ELSE IF skip_source_row(users, self.author) THEN TRUE
    ELSE skip_source_row(subs, self.subreddit)

\* Source.check_skip: its return value, the external fetch having succeeded
\* where one is made.
Source_check_skip_result(self, users, subs, arch) ==
    IF self.skip THEN TRUE
    ELSE IF skip_source_row(users, self.author) THEN TRUE
    ELSE IF skip_source_row(subs, self.subreddit) THEN TRUE
    ELSE IF self.id \in arch THEN TRUE
    ELSE FALSE

\* Source.check_skip: the tables of the Preference Store it queries, in order.
Source_check_skip_queries(self, users, subs) ==
    IF self.skip THEN <<>>
    ELSE IF skip_source_row(users, self.author) THEN <<"users">>
    ELSE <<"users", "subreddits">>

\* Source.check_skip with a bug: the result is returned but not latched.
Source_check_skip_no_latch(self, users, subs, arch) ==
    [self EXCEPT !.cached = self.cached \/ reaches_archived(self, users, subs)]

\* Source.check_skip: the Source afterwards (skip latched, submission cached).
Source_check_skip(self, users, subs, arch) ==
    [self EXCEPT !.skip = Source_check_skip_result(self, users, subs, arch),
                 !.cached = self.cached \/ reaches_archived(self, users, subs)]

\* The row Source.save writes.
source_row(self) ==
    [reply |-> self.reply, subreddit |-> self.subreddit, author |-> self.author,
     title |-> self.title, skip |-> self.skip]

\* Source.save with a bug: nothing is written.
Source_save_writes_nothing(self, tbl) == tbl

\* Source.save (UPDATE or INSERT, then commit).
Source_save(self, tbl) ==
    IF source_exists(tbl, self.id)
    THEN [tbl EXCEPT ![self.id] = source_row(self)]
    ELSE Upsert(tbl, self.id, source_row(self))

\* -------------------------------------------------------------- class Link
\* Link.__init__ with a bug: a link without author is not skipped.
Link_deleted_not_skipped(sub, source) ==
    [id |-> sub.name,
     subreddit |-> lower(sub.subreddit),
     skip |-> FALSE,
     author |-> IF sub.author # None THEN lower(sub.author) ELSE "[deleted]",
     title |-> sub.title,
     permalink |-> sub.permalink,
     source |-> source,
     is_new |-> TRUE]

\* Link.__init__
Link(sub, source) ==
    [id |-> sub.name,
     subreddit |-> lower(sub.subreddit),
     skip |-> (sub.author = None),
     author |-> IF sub.author # None THEN lower(sub.author) ELSE "[deleted]",
     title |-> sub.title,
     permalink |-> sub.permalink,
     source |-> source,
     is_new |-> TRUE]

\* Link.load with a bug: is_new is left true for a stored Link.
Link_load_stays_new(self, tbl) ==
    IF link_exists(tbl, self.id)
    THEN [self EXCEPT !.source = tbl[self.id].source,
                      !.permalink = tbl[self.id].permalink,
                      !.subreddit = tbl[self.id].subreddit,
                      !.skip = tbl[self.id].skip,
                      !.author = tbl[self.id].author,
                      !.title = tbl[self.id].title]
    ELSE self

\* Link.load
Link_load(self, tbl) ==
    IF link_exists(tbl, self.id)
    THEN [self EXCEPT !.source = tbl[self.id].source,
                      !.permalink = tbl[self.id].permalink,
                      !.subreddit = tbl[self.id].subreddit,
                      !.skip = tbl[self.id].skip,
                      !.author = tbl[self.id].author,
                      !.title = tbl[self.id].title,
                      !.is_new = FALSE]
    ELSE self

\* Link.check_skip: its return value.
Link_check_skip_result(self, users, subs) ==
    \/ self.skip
    \/ skip_link_row(users, self.author)
    \/ skip_link_row(subs, lower(self.subreddit))

\* Link.check_skip: the tables of the Preference Store it queries, in order.
Link_check_skip_queries(self, users, subs) ==
    IF self.skip THEN <<>>
    ELSE IF skip_link_row(users, self.author) THEN <<"users">>
    ELSE <<"users", "subreddits">>

\* Link.check_skip: the Link afterwards.
Link_check_skip(self, users, subs) ==
    [self EXCEPT !.skip = Link_check_skip_result(self, users, subs)]

\* The columns Link.save writes.
link_row(self) ==
    [source |-> self.source, permalink |-> self.permalink,
     subreddit |-> self.subreddit, skip |-> self.skip,
     author |-> self.author, title |-> self.title]

\* The rowid SQLite gives the next row INSERTed into tbl: one more than the
\* largest in use.
next_rowid(tbl) ==
    IF DOMAIN tbl = {} THEN 1
    ELSE 1 + (CHOOSE m \in {tbl[k].rowid : k \in DOMAIN tbl} :
                 \A k \in DOMAIN tbl : tbl[k].rowid <= m)

\* A row of table links as the store holds it: the columns and its rowid.
stored_row(row, rowid) ==
    [source |-> row.source, permalink |-> row.permalink,
     subreddit |-> row.subreddit, skip |-> row.skip,
     author |-> row.author, title |-> row.title, rowid |-> rowid]

\* Link.save with a bug: the INSERT leaves skip to the column's default.
Link_save_insert_drops_skip(self, tbl) ==
    IF link_exists(tbl, self.id)
    THEN [tbl EXCEPT ![self.id] = stored_row(link_row(self), @.rowid)]
    ELSE Upsert(tbl, self.id,
                stored_row([link_row(self) EXCEPT !.skip = FALSE],
                           next_rowid(tbl)))

\* Link.save with a bug: nothing is written.
Link_save_writes_nothing(self, tbl) == tbl

\* Link.save (UPDATE or INSERT, then commit): the UPDATE keeps the row where
\* it is, the INSERT appends it.
Link_save(self, tbl) ==
    IF link_exists(tbl, self.id)
    THEN [tbl EXCEPT ![self.id] = stored_row(link_row(self), @.rowid)]
    ELSE Upsert(tbl, self.id, stored_row(link_row(self), next_rowid(tbl)))

\* ------------------------------------------------------ class Notification
\* ORDER BY subreddit ASC, title ASC on rows <<subreddit, title, permalink,
\* rowid>>; rows equal in both keys come out in the order of their rowid, the
\* order they were INSERTed in.
row_before(a, b) ==
    \/ StrRank(a[1]) < StrRank(b[1])
    \/ a[1] = b[1] /\ StrRank(a[2]) < StrRank(b[2])
    \/ a[1] = b[1] /\ StrRank(a[2]) = StrRank(b[2]) /\ a[4] < b[4]

RECURSIVE order_by(_)
order_by(rows) ==
    IF rows = {} THEN <<>>
    ELSE LET first == CHOOSE r \in rows : \A q \in rows : ~row_before(q, r)
         IN  <<first>> \o order_by(rows \ {first})

\* The rows of tbl with the keys in ks, ordered, as the columns the query
\* SELECTs: <<subreddit, title, permalink>>.
select_rows(tbl, ks) ==
    LET ordered == order_by({<<tbl[k].subreddit, tbl[k].title,
                               tbl[k].permalink, tbl[k].rowid>> : k \in ks})
    IN  [i \in DOMAIN ordered |->
            <<ordered[i][1], ordered[i][2], ordered[i][3]>>]

\* should_notify with a bug: the query applies the pairing rule of run() and
\* selects the links from ra_automod only.
select_links_paired(id, tbl) ==
    select_rows(tbl, {j \in DOMAIN tbl : /\ tbl[j].source = id
                                         /\ ~tbl[j].skip
                                         /\ tbl[j].subreddit = "ra_automod"})

\* should_notify with a bug: the query lacks AND skip=?.
select_links_with_skipped(id, tbl) ==
    select_rows(tbl, {j \in DOMAIN tbl : tbl[j].source = id})

\* Notification.should_notify: the rows appended to self.links.
\* SELECT subreddit, title, permalink FROM links WHERE source=? AND skip=FALSE
select_links(id, tbl) ==
    select_rows(tbl, {j \in DOMAIN tbl : tbl[j].source = id /\ ~tbl[j].skip})

\* Notification.should_notify: its return value, any(self.links).
should_notify(id, tbl) == select_links(id, tbl) # <<>>

\* np(permalink): the no-participation form of a permalink.
np(permalink) == [host |-> "np.reddit.com", path |-> permalink]

\* Notification._render_comment: the bullets between preamble and footer.
render_comment(links) ==
    [i \in DOMAIN links |-> <<links[i][1], links[i][2], np(links[i][3])>>]

\* _render_comment evaluates np(...) once per link: NameError when the name
\* does not resolve and there is a link to render.
render_raises(links, defined) == links # <<>> /\ ~defined

\* ------------------------------------------------------------- Totes.run
\* now - submission.created_utc < POST_TIME, for the entry called name.
too_new_now(name, fd, n) ==
    \E i \in 1..Len(fd) : fd[i] = name /\ i <= n

\* skip_any, with the subreddit pairing rule applied (lines 522-526).
skip_any(source, link) ==
    IF source.subreddit # "relationship_advice" /\ link.subreddit # "ra_automod"
    THEN TRUE
    ELSE source.skip \/ link.skip

\* any_new (line 523).
any_new(source, link) == source.is_new \/ link.is_new

\* sources.add with a bug: Source objects compared by identity, as they
\* would be without __eq__ and __hash__.
sources_add_by_identity(batch, source) == batch \cup {source}

\* sources.add(source): Source.__eq__ and __hash__ compare the id alone, and
\* a set keeps the element it already holds.
sources_add(batch, source) ==
    IF \E x \in batch : x.id = source.id THEN batch ELSE batch \cup {source}

\* The Source of a candidate after Source(...), load() and check_skip().
resolved_source(name) ==
    Source_check_skip(Source_load(Source(submission(name).url), db_sources),
                      db_users, db_subreddits, archived)

\* The Link of a candidate after Link(...), load() and check_skip().
resolved_link(name) ==
    Link_check_skip(Link_load(Link(listed_submission(name, deleted),
                                   resolved_source(name).id),
                              db_links),
                    db_users, db_subreddits)

\* One line of the cycle's log.
log_entry(name, outcome, source, link) ==
    [name |-> name, outcome |-> outcome, source |-> source.id,
     source_subreddit |-> source.subreddit, link_subreddit |-> link.subreddit,
     source_new |-> source.is_new, link_new |-> link.is_new,
     source_skip |-> source.skip, link_skip |-> link.skip,
     skip_any |-> skip_any(source, link), any_new |-> any_new(source, link)]

\* The log line of a candidate the loop dropped before it had a Source/Link.
log_dropped(name, outcome) ==
    [name |-> name, outcome |-> outcome, source |-> <<>>,
     source_subreddit |-> None, link_subreddit |-> None,
     source_new |-> FALSE, link_new |-> FALSE, source_skip |-> FALSE,
     link_skip |-> FALSE, skip_any |-> FALSE, any_new |-> FALSE]

\* Where the for loop over the candidates goes after this candidate.
after_candidate(rest) == IF rest = <<>> THEN "dispatch" ELSE "resolve"

\* The candidate at hand parses into a Source.
head_parses == PATH_REGEX(path_of(submission(Head(submissions)).url))

\* The candidate at hand reaches Source(...): it is old enough.
head_handled ==
    /\ pc = "resolve"
    /\ submissions # <<>>
    /\ ~too_new_now(Head(submissions), feed, too_new)

\* ------------------------------------------------------------------- Init
\* The preference tables a deployment may hold (totes.py only reads them):
\* empty ones, or a user who opted out as a source and a subreddit that
\* opted out as a linker.
Preferences ==
    {[users |-> {}, subreddits |-> {}],
     [users |-> {[name |-> "erin", skip_source |-> TRUE, skip_link |-> FALSE]},
      subreddits |-> {[name |-> "drama", skip_source |-> FALSE, skip_link |-> TRUE]}]}

\* The process after totes.setup(), about to enter the polling loop, on an
\* empty store and an empty feed.
Init ==
    /\ TEST \in BOOLEAN
    /\ np_defined \in BOOLEAN
    /\ feed = <<>>
    /\ too_new = 0
    /\ archived = {}
    /\ deleted = {}
    /\ replies = <<>>
    /\ \E p \in Preferences : db_users = p.users /\ db_subreddits = p.subreddits
    /\ db_sources = <<>>
    /\ db_links = <<>>
    /\ pc = "run"
    /\ submissions = <<>>
    /\ sources = {}
    /\ log = <<>>
    /\ notified = <<>>
    /\ run_result = "none"
    /\ exit_cause = "none"
    /\ teardown = <<>>

config == <<TEST, np_defined, db_users, db_subreddits>>
site == <<feed, too_new, archived, deleted>>
process == <<exit_cause, teardown>>

\* ------------------------------------------------------------ environment
\* Somebody submits a link: it enters the feed as its newest entry.
Post(name) ==
    /\ pc = "run"
    /\ Len(feed) < MaxFeed
    /\ \A i \in 1..Len(feed) :
          submission(feed[i]).created_utc < submission(name).created_utc
    /\ feed' = <<name>> \o feed
    /\ too_new' = too_new + 1
    /\ UNCHANGED <<config, archived, deleted, replies, db_sources, db_links, pc,
                   submissions, sources, log, notified, run_result, process>>

\* Time passes: the oldest of the too-new entries reaches POST_TIME.
Age ==
    /\ pc = "run"
    /\ too_new > 0
    /\ too_new' = too_new - 1
    /\ UNCHANGED <<config, feed, archived, deleted, replies, db_sources, db_links, pc,
                   submissions, sources, log, notified, run_result, process>>

\* The author of a feed entry deletes it (or the account): the listing shows
\* it without an author from then on.
DeleteAuthor(name) ==
    /\ pc = "run"
    /\ name \in Deletable \ deleted
    /\ \E i \in 1..Len(feed) : feed[i] = name
    /\ deleted' = deleted \cup {name}
    /\ UNCHANGED <<config, feed, too_new, archived, replies, db_sources,
                   db_links, pc, submissions, sources, log, notified,
                   run_result, process>>

\* The site archives a thread.
Archive(id) ==
    /\ pc \in {"run", "resolve"}
    /\ id \notin archived
    /\ archived' = archived \cup {id}
    /\ UNCHANGED <<config, feed, too_new, deleted, replies, db_sources, db_links, pc,
                   submissions, sources, log, notified, run_result, process>>

\* ---------------------------------------------------- Totes.run, by steps
\* The first LIMIT entries of the feed.
new_listing(fd) == SubSeq(fd, 1, IF Len(fd) < LIMIT THEN Len(fd) ELSE LIMIT)

\* run() starts a cycle (lines 465-480): the batch is empty and the listing
\* fetched.
Fetch ==
    /\ pc = "run"
    /\ submissions' = new_listing(feed)
    /\ pc' = after_candidate(new_listing(feed))
    /\ UNCHANGED <<config, site, replies, db_sources, db_links, sources, log,
                   notified, run_result, process>>

\* The listing request raises a recoverable API error: run() raises, the
\* loop of __main__ logs it, rolls back and sleeps (lines 598-601).
FetchRaises ==
    /\ pc = "run"
    /\ run_result' = "raised"
    /\ pc' = "sleep"
    /\ UNCHANGED <<config, site, replies, db_sources, db_links, submissions,
                   sources, log, notified, process>>

\* Lines 483-487: the candidate is younger than POST_TIME.
SkipTooNew ==
    /\ pc = "resolve"
    /\ submissions # <<>>
    /\ too_new_now(Head(submissions), feed, too_new)
    /\ log' = Append(log, log_dropped(Head(submissions), "too_new"))
    /\ submissions' = Tail(submissions)
    /\ pc' = after_candidate(Tail(submissions))
    /\ UNCHANGED <<config, site, replies, db_sources, db_links, sources,
                   notified, run_result, process>>

\* Lines 489-500: Source(...) raises NotAComment.
SourceNotAComment ==
    /\ head_handled
    /\ ~head_parses
    /\ log' = Append(log, log_dropped(Head(submissions), "source_error"))
    /\ submissions' = Tail(submissions)
    /\ pc' = after_candidate(Tail(submissions))
    /\ UNCHANGED <<config, site, replies, db_sources, db_links, sources,
                   notified, run_result, process>>

\* Lines 489-500: source.load() fetches the external submission and the
\* fetch raises (SubmissionNotFound or an API error).
SourceLoadRaises ==
    /\ head_handled
    /\ head_parses
    /\ load_fetches(Source(submission(Head(submissions)).url), db_sources)
    /\ log' = Append(log, log_dropped(Head(submissions), "source_error"))
    /\ submissions' = Tail(submissions)
    /\ pc' = after_candidate(Tail(submissions))
    /\ UNCHANGED <<config, site, replies, db_sources, db_links, sources,
                   notified, run_result, process>>

\* Line 504: source.check_skip() fetches the external submission and the
\* fetch raises.  No handler in run() surrounds the call: run() raises, the
\* loop of __main__ logs it, rolls back and sleeps.  submissions and sources
\* keep what the abandoned cycle left unhandled, until the next cycle starts.
CheckSkipRaises ==
    /\ head_handled
    /\ head_parses
    /\ check_skip_fetches(Source_load(Source(submission(Head(submissions)).url),
                                      db_sources),
                          db_users, db_subreddits)
    /\ run_result' = "raised"
    /\ pc' = "sleep"
    /\ UNCHANGED <<config, site, replies, db_sources, db_links, submissions,
                   sources, log, notified, process>>

\* Lines 507-515: Link(...) or link.load() raises a recoverable error, after
\* the Source was saved.
LinkRaises ==
    /\ head_handled
    /\ head_parses
    /\ db_sources' = Source_save(resolved_source(Head(submissions)), db_sources)
    /\ log' = Append(log, log_dropped(Head(submissions), "link_error"))
    /\ submissions' = Tail(submissions)
    /\ pc' = after_candidate(Tail(submissions))
    /\ UNCHANGED <<config, site, replies, db_links, sources, notified,
                   run_result, process>>

\* Lines 489-532 without an exception: the Source and the Link are loaded,
\* checked and saved, and the Source joins the batch when something is new
\* and nothing is skipped.
Resolve ==
    /\ head_handled
    /\ head_parses
    /\ LET name == Head(submissions)
           source == resolved_source(name)
           link == resolved_link(name)
       IN  /\ db_sources' = Source_save(source, db_sources)
           /\ db_links' = Link_save(link, db_links)
           /\ sources' = IF any_new(source, link) /\ ~skip_any(source, link)
                         THEN sources_add(sources, source)
                         ELSE sources
           /\ log' = Append(log, log_entry(name, "resolved", source, link))
    /\ submissions' = Tail(submissions)
    /\ pc' = after_candidate(Tail(submissions))
    /\ UNCHANGED <<config, site, replies, notified, run_result, process>>

\* ------------------------------------------- Notification.post_reply, etc.
\* post_reply with a bug: the test of self.reply is missing and a reply is
\* created every time.
site_after_post_always_new(source, links, reps) ==
    Append(reps, [parent |-> source.id, body |-> render_comment(links),
                  edited |-> FALSE])

\* The site after post_reply succeeded: the reply named source.reply edited,
\* or a new reply created under the Source's submission.
site_after_post(source, links, reps) ==
    IF source.reply # NoReply
    THEN [reps EXCEPT ![source.reply].body = render_comment(links),
                      ![source.reply].edited = TRUE]
    ELSE Append(reps, [parent |-> source.id, body |-> render_comment(links),
                       edited |-> FALSE])

\* The Source after post_reply succeeded: self.source.reply = self.reply.
source_after_post(source, reps) ==
    IF source.reply # NoReply
    THEN source
    ELSE [source EXCEPT !.reply = Len(reps) + 1]

\* What a call of post_reply that returned did.
post_result(source, test) ==
    IF test THEN "test"
    ELSE IF source.reply # NoReply THEN "edited" ELSE "created"

\* Table sources after post_reply succeeded: only the create path saves.
db_after_post(source, reps, tbl) ==
    IF source.reply # NoReply
    THEN tbl
    ELSE Source_save(source_after_post(source, reps), tbl)

\* Lines 534-539, no exception: the next Source of the batch; post_reply is
\* called when should_notify() found a link, and returns in TEST mode after
\* logging the body, otherwise after editing the existing reply or creating
\* and saving one.
Notify(source) ==
    /\ pc = "dispatch"
    /\ source \in sources
    /\ ~render_raises(select_links(source.id, db_links), np_defined)
    /\ IF should_notify(source.id, db_links)
       THEN /\ notified' = Append(notified, [source |-> source.id,
                                              result |-> post_result(source, TEST)])
            /\ IF TEST
               THEN UNCHANGED <<replies, db_sources>>
               ELSE /\ replies' = site_after_post(
                                      source, select_links(source.id, db_links),
                                      replies)
                    /\ db_sources' = db_after_post(source, replies, db_sources)
       ELSE UNCHANGED <<replies, db_sources, notified>>
    /\ sources' = sources \ {source}
    /\ UNCHANGED <<config, site, db_links, pc, submissions, log, run_result,
                   process>>

\* Lines 538-543: reply.edit or submission.reply raises a recoverable API
\* error; run() logs it, rolls back and goes on with the next Source.
PostReplyRaises(source) ==
    /\ pc = "dispatch"
    /\ source \in sources
    /\ should_notify(source.id, db_links)
    /\ ~render_raises(select_links(source.id, db_links), np_defined)
    /\ ~TEST
    /\ notified' = Append(notified, [source |-> source.id, result |-> "raised"])
    /\ sources' = sources \ {source}
    /\ UNCHANGED <<config, site, replies, db_sources, db_links, pc,
                   submissions, log, run_result, process>>

\* The process ends: after the teardown of lines 605-607 on KeyboardInterrupt,
\* with a traceback and no teardown on any exception __main__ does not catch.
exits(cause) ==
    /\ pc' = "exited"
    /\ exit_cause' = cause
    /\ teardown' = IF cause = "KeyboardInterrupt" THEN <<"quit", "close">> ELSE <<>>
    /\ submissions' = <<>>
    /\ sources' = {}
    /\ log' = <<>>
    /\ notified' = <<>>
    /\ run_result' = "none"

\* Line 384 and 440: _render_comment calls np, a name totes.py never binds.
\* NameError is neither in RECOVERABLE_EXC nor a KeyboardInterrupt.
RenderRaises(source) ==
    /\ pc = "dispatch"
    /\ source \in sources
    /\ should_notify(source.id, db_links)
    /\ render_raises(select_links(source.id, db_links), np_defined)
    /\ exits("NameError")
    /\ UNCHANGED <<config, site, replies, db_sources, db_links>>

\* Lines 545-553 and 601: every Source of the batch was handled; the beacon
\* is pinged, run() returns and the loop sleeps.
Finish ==
    /\ pc = "dispatch"
    /\ sources = {}
    /\ pc' = "sleep"
    /\ run_result' = "Done"
    /\ UNCHANGED <<config, site, replies, db_sources, db_links, submissions,
                   sources, log, notified, process>>

\* Line 601: time.sleep(WAIT) returns; nothing of the finished call of run()
\* is left.
Sleep ==
    /\ pc = "sleep"
    /\ pc' = "run"
    /\ submissions' = <<>>
    /\ sources' = {}
    /\ log' = <<>>
    /\ notified' = <<>>
    /\ run_result' = "none"
    /\ UNCHANGED <<config, site, replies, db_sources, db_links, process>>

Next ==
    \/ \E name \in SubmissionNames : Post(name)
    \/ Age
    \/ \E id \in SourceIds : Archive(id)
    \/ \E name \in SubmissionNames : DeleteAuthor(name)
    \/ Fetch
    \/ FetchRaises
    \/ SkipTooNew
    \/ SourceNotAComment
    \/ SourceLoadRaises
    \/ CheckSkipRaises
    \/ LinkRaises
    \/ Resolve
    \/ \E source \in sources : Notify(source)
    \/ \E source \in sources : PostReplyRaises(source)
    \/ \E source \in sources : RenderRaises(source)
    \/ Finish
    \/ Sleep

\* The program on a healthy store and without signals.
Spec == Init /\ [][Next]_vars

\* The program when the site fails on posting and editing replies only.
PostFailureNext ==
    \/ \E name \in SubmissionNames : Post(name)
    \/ Age
    \/ \E id \in SourceIds : Archive(id)
    \/ \E name \in SubmissionNames : DeleteAuthor(name)
    \/ Fetch
    \/ SkipTooNew
    \/ SourceNotAComment
    \/ Resolve
    \/ \E source \in sources : Notify(source)
    \/ \E source \in sources : PostReplyRaises(source)
    \/ \E source \in sources : RenderRaises(source)
    \/ Finish
    \/ Sleep

PostFailureSpec == Init /\ [][PostFailureNext]_vars

\* ------------------------------------------ exceptions __main__ lets through
\* How far the candidate at hand got when the exception struck: 0 before
\* source.save(), 1 after it, 2 after link.save().
sources_at(k) ==
    IF k >= 1
    THEN Source_save(resolved_source(Head(submissions)), db_sources)
    ELSE db_sources

links_at(k) ==
    IF k >= 2
    THEN Link_save(resolved_link(Head(submissions)), db_links)
    ELSE db_links

\* KeyboardInterrupt while the loop sleeps (line 601): lines 602-607 run.
InterruptSleep ==
    /\ pc \in {"run", "sleep"}
    /\ exits("KeyboardInterrupt")
    /\ UNCHANGED <<config, site, replies, db_sources, db_links>>

\* KeyboardInterrupt while a candidate is handled (lines 482-532): what was
\* committed stays, no handler of run() catches it, lines 602-607 run.
InterruptResolve ==
    /\ pc = "resolve"
    /\ submissions # <<>>
    /\ \E k \in 0..2 :
          /\ k > 0 => head_handled /\ head_parses
          /\ db_sources' = sources_at(k)
          /\ db_links' = links_at(k)
    /\ exits("KeyboardInterrupt")
    /\ UNCHANGED <<config, site, replies>>

\* KeyboardInterrupt while a Source is dispatched (lines 534-543): before the
\* site is contacted, or right after submission.reply or reply.edit returned
\* (lines 397, 401) and so before source.save() of line 405.
InterruptDispatch(source) ==
    /\ pc = "dispatch"
    /\ source \in sources
    /\ \/ UNCHANGED replies
       \/ /\ should_notify(source.id, db_links)
          /\ ~render_raises(select_links(source.id, db_links), np_defined)
          /\ ~TEST
          /\ replies' = site_after_post(source, select_links(source.id, db_links),
                                        replies)
    /\ exits("KeyboardInterrupt")
    /\ UNCHANGED <<config, site, db_sources, db_links>>

\* sqlite3.Error from a query or save while a candidate is handled: in
\* load/check_skip/save of the Source (nothing written) or of the Link (the
\* Source written).  sqlite3.Error is not in RECOVERABLE_EXC: the process
\* ends with a traceback.
StoreErrorResolve ==
    /\ head_handled
    /\ head_parses
    /\ \E k \in 0..1 :
          /\ db_sources' = sources_at(k)
          /\ db_links' = links_at(k)
    /\ exits("sqlite3.Error")
    /\ UNCHANGED <<config, site, replies>>

\* sqlite3.Error while a Source is dispatched: from the query of
\* should_notify, or from source.save() of line 405 after submission.reply
\* created the reply.
StoreErrorDispatch(source) ==
    /\ pc = "dispatch"
    /\ source \in sources
    /\ \/ UNCHANGED replies
       \/ /\ should_notify(source.id, db_links)
          /\ ~render_raises(select_links(source.id, db_links), np_defined)
          /\ ~TEST
          /\ source.reply = NoReply
          /\ replies' = site_after_post(source, select_links(source.id, db_links),
                                        replies)
    /\ exits("sqlite3.Error")
    /\ UNCHANGED <<config, site, db_sources, db_links>>

\* The operator starts the program again (lines 582-592): a new process on
\* the same store file.
Start ==
    /\ pc = "exited"
    /\ pc' = "run"
    /\ exit_cause' = "none"
    /\ teardown' = <<>>
    /\ UNCHANGED <<config, site, replies, db_sources, db_links, submissions,
                   sources, log, notified, run_result>>

ExitNext ==
    \/ Next
    \/ InterruptSleep
    \/ InterruptResolve
    \/ \E source \in sources : InterruptDispatch(source)
    \/ StoreErrorResolve
    \/ \E source \in sources : StoreErrorDispatch(source)
    \/ Start

\* The program with a store that may fail, interrupts and restarts.
ExitSpec == Init /\ [][ExitNext]_vars

\* ------------------------------------------------- rendering a long list
\* The name of the k-th of many links to thread abc123.
many_name(k) == "t3_many" \o ToString(k)

\* The Link of the k-th of many links after load() and check_skip(): new
\* when the store has no row for it yet.
many_link(k, title, is_new) ==
    [id |-> many_name(k), subreddit |-> "ra_automod", skip |-> FALSE,
     author |-> "dave", title |-> title,
     permalink |-> "/r/ra_automod/comments/many" \o ToString(k) \o "/",
     source |-> <<"t3", "abc123">>, is_new |-> is_new]

\* The title of the k-th link: the one given at position marked, a short
\* one elsewhere.
many_title(k, marked, title) == IF k = marked THEN title ELSE "Cross post"

\* The rowid of the k-th of n rows: the first n - 1 were INSERTed in the
\* order of k ("asc") or against it ("desc"), the n-th after them.
many_rowid(n, k, order) == IF k = n \/ order = "asc" THEN k ELSE n - k

\* Table links with the first m of n rows for thread abc123.
many_links(n, m, marked, title, order) ==
    [id \in {many_name(k) : k \in 1..m} |->
        LET k == CHOOSE j \in 1..m : id = many_name(j)
        IN  stored_row(link_row(many_link(k, many_title(k, marked, title), FALSE)),
                       many_rowid(n, k, order))]

\* The Source of thread abc123 as the batch holds it, notified before:
\* loaded from its row, the thread fetched by check_skip().
many_source ==
    [id |-> <<"t3", "abc123">>, subreddit |-> "relationship_advice",
     cached |-> TRUE, author |-> "erin", title |-> "Some title", reply |-> 1,
     skip |-> FALSE, is_new |-> FALSE]

\* The for loop over the candidates has ended and the dispatch loop is about
\* to take a Source that has the reply 1 and between
\* LINKS_BEFORE_TITLE_CUTOFF - 2 and MaxLinks unskipped Link rows.  The
\* listing held two candidates: the n-th link, stored in this cycle, and
\* the link stored last before it, handled again.  The first or the n-th
\* row has a short title, one of TITLE_LIMIT characters or a longer one.
RenderInit ==
    /\ TEST \in BOOLEAN
    /\ np_defined \in BOOLEAN
    /\ too_new = 0
    /\ archived = {}
    /\ deleted = {}
    /\ db_users = {}
    /\ db_subreddits = {}
    /\ db_sources = Source_save(many_source, <<>>)
    /\ \E n \in (LINKS_BEFORE_TITLE_CUTOFF - 2)..MaxLinks :
       \E marked \in {1, n} :
       \E title \in {"Cross post", Title137, Title138} :
       \E order \in {"asc", "desc"} :
          LET before == many_links(n, n - 1, marked, title, order)
              last == CHOOSE k \in 1..(n - 1) :
                          many_rowid(n, k, order) = n - 1
              link == many_link(n, many_title(n, marked, title), TRUE)
              again == Link_load(many_link(last, "Cross post", TRUE), before)
          IN  /\ feed = <<link.id, again.id>>
              /\ db_links = Link_save(again, Link_save(link, before))
              /\ replies = <<[parent |-> many_source.id,
                              body |-> render_comment(
                                           select_links(many_source.id, before)),
                              edited |-> FALSE]>>
              /\ log = <<log_entry(link.id, "resolved", many_source, link),
                         log_entry(again.id, "resolved", many_source, again)>>
    /\ pc = "dispatch"
    /\ submissions = <<>>
    /\ sources = {many_source}
    /\ notified = <<>>
    /\ run_result = "none"
    /\ exit_cause = "none"
    /\ teardown = <<>>

RenderNext ==
    \/ \E source \in sources : Notify(source)
    \/ \E source \in sources : PostReplyRaises(source)
    \/ \E source \in sources : RenderRaises(source)
    \/ Finish
    \/ Sleep

\* The dispatch phase of a cycle on a Source with many Links.
RenderSpec == RenderInit /\ [][RenderNext]_vars

\* ------------------------------------------------------------------ claims
\* The replies of the site made under the Source id.
replies_on(id) == {i \in DOMAIN replies : replies[i].parent = id}

\* The lines of the cycle's log about candidates that had the Source join
\* the batch (any_new and not skip_any).
queued_lines(id) ==
    {i \in DOMAIN log : /\ log[i].outcome = "resolved"
                        /\ log[i].source = id
                        /\ log[i].any_new
                        /\ ~log[i].skip_any}

\* The calls of post_reply of this cycle for the Source id.
calls_for(id) == {i \in DOMAIN notified : notified[i].source = id}

\* C1: without a crash of the process, at most one reply is ever created per
\* Source id: no two replies of the site have the same parent, every reply
\* is the one its Source's row names, and a stored reply name is the name of
\* a reply under that very Source (so every later post_reply edits it).
C1_AtMostOneNewReply ==
    /\ \A i, j \in DOMAIN replies : replies[i].parent = replies[j].parent => i = j
    /\ \A i \in DOMAIN replies :
          /\ replies[i].parent \in DOMAIN db_sources
          /\ db_sources[replies[i].parent].reply = i
    /\ \A id \in DOMAIN db_sources :
          db_sources[id].reply # NoReply => db_sources[id].reply \in replies_on(id)

\* A reply that was created in one cycle and edited in a later one, when a
\* second link to its Source arrived: it lists both links.
C1_Witness ==
    \E i \in DOMAIN replies : replies[i].edited /\ Len(replies[i].body) = 2

\* C7: a reply name stored on a Source row is never changed or cleared by a
\* later step, whatever the step (load and save in run, post_reply, exits and
\* restarts included).
C7_ReplyIdStable ==
    [][\A id \in DOMAIN db_sources :
          db_sources[id].reply # NoReply =>
              /\ id \in DOMAIN db_sources'
              /\ db_sources'[id].reply = db_sources[id].reply]_vars

\* A cycle is over in which a Source whose row already named a reply was
\* loaded and saved again, without being dispatched.
C7_Witness ==
    /\ pc = "sleep"
    /\ \E i \in DOMAIN log :
          /\ log[i].outcome = "resolved"
          /\ ~log[i].source_new
          /\ db_sources[log[i].source].reply # NoReply
          /\ calls_for(log[i].source) = {}

\* C10: within one cycle the batch holds one entry per Source id, post_reply
\* is called at most once per Source id, and only when no candidate of the
\* cycle is left.
C10_OneDispatchPerSource ==
    /\ \A x, y \in sources : x.id = y.id => x = y
    /\ \A i, j \in DOMAIN notified :
          notified[i].source = notified[j].source => i = j
    /\ notified # <<>> => submissions = <<>>

\* A cycle is over in which two candidates had the same Source join the
\* batch and post_reply was called once for it.
C10_Witness ==
    /\ pc = "sleep"
    /\ \E id \in SourceIds :
          /\ Cardinality(queued_lines(id)) = 2
          /\ Cardinality(calls_for(id)) = 1

\* A reply on the Source lists every unskipped Link stored for it.
listed(id) ==
    \E i \in replies_on(id) :
        replies[i].body = render_comment(select_links(id, db_links))

\* No call of post_reply raised in this cycle.
none_raised == \A i \in DOMAIN notified : notified[i].result # "raised"

\* C2: a notification whose post failed with a recoverable API error is not
\* lost, a later cycle makes up for it: when a cycle is over in which no API
\* call failed, every candidate it resolved with nothing skipped has its Link
\* listed in a reply on its Source.
C2_FailedPostIsRetried ==
    (pc = "sleep" /\ run_result = "Done" /\ ~TEST /\ none_raised) =>
        \A i \in DOMAIN log :
            log[i].outcome = "resolved" /\ ~log[i].skip_any
                => listed(log[i].source)

\* C3: whatever crash or interrupt happens, no Source ever has a second reply
\* created for it.
C3_NoSecondReplyAfterCrash ==
    \A id \in SourceIds : Cardinality(replies_on(id)) <= 1

\* C4: a recoverable failure on one candidate never aborts the cycle: when
\* run() is over, no candidate of the listing is left unhandled and no Source
\* of the batch is left undispatched.
C4_FailureNeverAbortsCycle ==
    pc = "sleep" => submissions = <<>> /\ sources = {}

\* C5: a new, unskipped Source in relationship_advice with a new, unskipped
\* Link from a subreddit other than ra_automod has skip_any forced to true
\* and does not join the batch.
C5_PairingKeepsSourceOut ==
    \A i \in DOMAIN log :
        (/\ log[i].outcome = "resolved"
         /\ log[i].source_new /\ log[i].link_new
         /\ ~log[i].source_skip /\ ~log[i].link_skip
         /\ log[i].source_subreddit = "relationship_advice"
         /\ log[i].link_subreddit # "ra_automod")
        => /\ log[i].skip_any
           /\ pc = "resolve" => \A s \in sources : s.id # log[i].source

\* The line of the log is the end-to-end scenario: a new Source under
\* relationship_advice, a new Link from ra_automod, neither skipped.
e2e_line(e) ==
    /\ e.outcome = "resolved"
    /\ e.source_new /\ e.link_new
    /\ ~e.source_skip /\ ~e.link_skip
    /\ e.source_subreddit = "relationship_advice"
    /\ e.link_subreddit = "ra_automod"

\* The step is a call of post_reply that raised a recoverable API error.
post_raised_step ==
    /\ Len(notified') = Len(notified) + 1
    /\ notified'[Len(notified')].result = "raised"

\* C6: in the end-to-end scenario the Source joins the batch, and when the
\* dispatch loop takes it (not in TEST mode, the site not failing)
\* should_notify is true, a new reply is created and the stored Source names
\* it.
C6_EndToEnd ==
    [][/\ \A i \in DOMAIN log :
             e2e_line(log[i]) /\ pc = "resolve"
                => \E s \in sources : s.id = log[i].source /\ s.is_new
       /\ \A s \in sources :
             (/\ pc = "dispatch"
              /\ s \notin sources'
              /\ \E i \in DOMAIN log : e2e_line(log[i]) /\ log[i].source = s.id
              /\ ~TEST
              /\ ~post_raised_step)
             => /\ should_notify(s.id, db_links)
                /\ Len(replies') = Len(replies) + 1
                /\ replies'[Len(replies')].parent = s.id
                /\ db_sources'[s.id].reply = Len(replies')]_vars

\* The bullet renders a row of table links stored for the Source id with
\* skip false.
bullet_of_row(bullet, id, tbl) ==
    \E k \in DOMAIN tbl :
        /\ tbl[k].source = id
        /\ ~tbl[k].skip
        /\ bullet = <<tbl[k].subreddit, tbl[k].title, np(tbl[k].permalink)>>

\* A step posted the reply i: created it or edited its body.
posted(i) == i \notin DOMAIN replies \/ replies'[i] # replies[i]

\* C11: every link listed in a notification posted for a Source is, at the
\* time the notification is composed, a row of table links with that Source
\* as source and skip false.
C11_ListedLinksStoredUnskipped ==
    [][\A i \in DOMAIN replies' :
          posted(i) =>
              \A j \in DOMAIN replies'[i].body :
                  bullet_of_row(replies'[i].body[j], replies'[i].parent,
                                db_links)]_vars

\* A notification was posted for a Source that also has a skipped Link
\* stored: the reply lists fewer links than the Source has rows.
C11_Witness ==
    \E i \in DOMAIN replies :
        /\ replies[i].body # <<>>
        /\ \E k \in DOMAIN db_links :
              db_links[k].source = replies[i].parent /\ db_links[k].skip

\* C12: in TEST mode every call of post_reply returns success, and the site
\* is never contacted: no reply exists, and no Source, in the batch or in
\* the store, ever names one.
C12_DryRunContactsNothing ==
    [][TEST =>
         /\ replies' = <<>>
         /\ \A id \in DOMAIN db_sources' : db_sources'[id].reply = NoReply
         /\ \A s \in sources' : s.reply = NoReply
         /\ \A s \in sources :
               (pc = "dispatch" /\ s \notin sources'
                  /\ should_notify(s.id, db_links))
               => notified' = Append(notified, [source |-> s.id,
                                                 result |-> "test"])]_vars

\* C13: when a Source joins the batch, check_skip and save of the Source and
\* of the Link that triggered it are done: the step is the handling of that
\* candidate, and the store holds the Source's row and the Link's row with
\* the skip results the decision was taken on.
C13_SkipPersistedBeforeQueued ==
    [][\A s \in sources' \ sources :
          /\ Len(log') = Len(log) + 1
          /\ LET e == log'[Len(log')]
             IN  /\ e.outcome = "resolved"
                 /\ e.source = s.id
                 /\ e.source_skip = s.skip
                 /\ s.id \in DOMAIN db_sources'
                 /\ db_sources'[s.id].skip = e.source_skip
                 /\ e.name \in DOMAIN db_links'
                 /\ db_links'[e.name].source = s.id
                 /\ db_links'[e.name].skip = e.link_skip]_vars

\* A Source is in the batch while candidates of the cycle remain, its row
\* and the row of the Link that triggered it stored.
C13_Witness ==
    /\ pc = "resolve"
    /\ \E s \in sources :
          /\ s.id \in DOMAIN db_sources
          /\ \E i \in queued_lines(s.id) : log[i].name \in DOMAIN db_links

\* The Source and the Link of the candidate at hand after load(), before
\* check_skip().
source_at_hand ==
    Source_load(Source(submission(Head(submissions)).url), db_sources)

link_at_hand ==
    Link_load(Link(listed_submission(Head(submissions), deleted),
                   source_at_hand.id),
              db_links)

\* A later call of check_skip on the Source: true, no query, no fetch,
\* whatever the Preference Store and the site hold by then.
Source_latched(self) ==
    \A p \in Preferences : \A arch \in SUBSET SourceIds :
        /\ Source_check_skip_result(self, p.users, p.subreddits, arch)
        /\ Source_check_skip_queries(self, p.users, p.subreddits) = <<>>
        /\ ~check_skip_fetches(self, p.users, p.subreddits)
        /\ Source_check_skip(self, p.users, p.subreddits, arch) = self

\* A later call of check_skip on the Link: true and no query.
Link_latched(self) ==
    \A p \in Preferences :
        /\ Link_check_skip_result(self, p.users, p.subreddits)
        /\ Link_check_skip_queries(self, p.users, p.subreddits) = <<>>
        /\ Link_check_skip(self, p.users, p.subreddits) = self

\* C14: skip latches.  For the Source and the Link of every candidate the
\* loop handles: when skip is true after load(), and when check_skip()
\* returns true, every call of check_skip that follows on the instance
\* returns true without a query of the Preference Store and without a fetch
\* of the external submission.
C14_SkipLatches ==
    (head_handled /\ head_parses) =>
        /\ source_at_hand.skip => Source_latched(source_at_hand)
        /\ Source_check_skip_result(source_at_hand, db_users, db_subreddits,
                                    archived)
              => Source_latched(Source_check_skip(source_at_hand, db_users,
                                                  db_subreddits, archived))
        /\ link_at_hand.skip => Link_latched(link_at_hand)
        /\ Link_check_skip_result(link_at_hand, db_users, db_subreddits)
              => Link_latched(Link_check_skip(link_at_hand, db_users,
                                              db_subreddits))

\* A candidate is at hand whose Source is hydrated with skip true from its
\* row and whose Link has skip true from its deleted author.
C14_Witness ==
    /\ head_handled /\ head_parses
    /\ ~source_at_hand.is_new /\ source_at_hand.skip
    /\ link_at_hand.is_new /\ link_at_hand.skip

\* Preference Stores to call Source.check_skip with: the author of thread
\* abc123 with and without a skip_source row, the subreddit of a Source
\* without a row, with a skip_source row and with a row that skips links.
SourcePreferences ==
    {[users |-> u, subreddits |-> r] :
        u \in SUBSET {[name |-> "erin", skip_source |-> TRUE, skip_link |-> FALSE]},
        r \in {{},
               {[name |-> "relationship_advice", skip_source |-> TRUE,
                 skip_link |-> FALSE]},
               {[name |-> "askreddit", skip_source |-> FALSE,
                 skip_link |-> TRUE]}}}

\* The four conditions of the claim, and the same in the opposite order.
any_skip_rule(self, users, subs, arch) ==
    \/ self.skip
    \/ \E r \in users : r.name = self.author /\ r.skip_source
    \/ \E r \in subs : r.name = self.subreddit /\ r.skip_source
    \/ self.id \in arch

any_skip_rule_reversed(self, users, subs, arch) ==
    \/ self.id \in arch
    \/ \E r \in subs : r.name = self.subreddit /\ r.skip_source
    \/ \E r \in users : r.name = self.author /\ r.skip_source
    \/ self.skip

\* C15: for the Source of every candidate the loop handles, latched or not,
\* and every Preference Store and archived flag, Source.check_skip returns
\* true exactly when skip was latched, or the author has a users row with
\* skip_source, or the subreddit has a subreddits row with skip_source, or
\* the external submission is archived, in whatever order these are looked
\* at; and skip is set to what it returns.
C15_CheckSkipIsAnyRule ==
    (head_handled /\ head_parses) =>
        LET loaded == source_at_hand
        IN  \A latch \in BOOLEAN : \A p \in SourcePreferences :
            \A arch \in SUBSET SourceIds :
                LET self == [loaded EXCEPT !.skip = latch]
                    result == Source_check_skip_result(self, p.users,
                                                       p.subreddits, arch)
                IN  /\ result = any_skip_rule(self, p.users, p.subreddits, arch)
                    /\ result = any_skip_rule_reversed(self, p.users,
                                                       p.subreddits, arch)
                    /\ Source_check_skip(self, p.users, p.subreddits,
                                         arch).skip = result

\* The Source of the candidate at hand is skipped by the last rule alone:
\* not latched, no preference row, the external submission archived.
C15_Witness ==
    /\ head_handled /\ head_parses
    /\ reaches_archived(source_at_hand, db_users, db_subreddits)
    /\ source_at_hand.id \in archived
    /\ Source_check_skip_result(source_at_hand, db_users, db_subreddits,
                                archived)

\* The line of the log is about a candidate the listing delivered without
\* an author.
author_absent(e) ==
    e.outcome = "resolved" /\ listed_submission(e.name, deleted).author = None

\* After the step, the row of the line's Link has skip true and the author
\* '[deleted]'.
stored_as_deleted(e) ==
    /\ e.name \in DOMAIN db_links'
    /\ db_links'[e.name].skip
    /\ db_links'[e.name].author = "[deleted]"

\* No reply the step posts lists the line's Link.
left_out(e) ==
    \A r \in DOMAIN replies' :
        posted(r) =>
            \A j \in DOMAIN replies'[r].body :
                replies'[r].body[j][3] # np(submission(e.name).permalink)

\* C16 as claimed: a candidate without author, once the loop has handled
\* it, has its row stored with skip true and author '[deleted]', a row
\* stored earlier or not, and no notification of the cycle lists it.
C16_DeletedAuthorAlwaysSkipped ==
    [][\A i \in DOMAIN log' :
          author_absent(log'[i]) => stored_as_deleted(log'[i]) /\ left_out(log'[i])]_vars

\* C16 amended: the same for a candidate that had no row in table links;
\* when a row was stored earlier, load() overwrites what __init__ set and
\* the row keeps the author it had, and its skip unless a rule sets it.
C16_NewDeletedAuthorSkipped ==
    [][\A i \in DOMAIN log' :
          author_absent(log'[i]) =>
              IF log'[i].link_new
              THEN stored_as_deleted(log'[i]) /\ left_out(log'[i])
              ELSE /\ log'[i].name \in DOMAIN db_links
                   /\ db_links'[log'[i].name].author = db_links[log'[i].name].author
                   /\ db_links[log'[i].name].skip => db_links'[log'[i].name].skip
                   /\ ~db_links[log'[i].name].skip
                        => db_links'[log'[i].name].skip = log'[i].link_skip]_vars

\* A candidate without author and without a row was handled and skipped
\* while a reply on its Source, posted in the same cycle, lists another Link.
C16_Witness ==
    \E i \in DOMAIN log :
        /\ author_absent(log[i])
        /\ log[i].link_new
        /\ db_links[log[i].name].skip
        /\ notified # <<>>
        /\ \E r \in replies_on(log[i].source) : replies[r].body # <<>>

\* C17: every row of table links names, as its source, the id of a row of
\* table sources, in every state of the store, crashes and restarts
\* included.
C17_LinkSourceExists ==
    \A k \in DOMAIN db_links : db_links[k].source \in DOMAIN db_sources

\* The process died of a store error and left two Link rows that name the
\* same Source row.
C17_Witness ==
    /\ exit_cause = "sqlite3.Error"
    /\ \E j, k \in DOMAIN db_links :
          /\ j # k
          /\ db_links[j].source = db_links[k].source
          /\ db_links[k].source \in DOMAIN db_sources

\* The table holds the rows of tbl and, under id, a row with the columns
\* given.
saved_once(after, tbl, id, row) ==
    /\ DOMAIN after = DOMAIN tbl \cup {id}
    /\ \A column \in DOMAIN row : after[id][column] = row[column]
    /\ \A k \in DOMAIN tbl \ {id} : after[k] = tbl[k]

\* C18: save() is idempotent.  For the Source and the Link of every
\* candidate the loop handles, after load() and check_skip(): one call of
\* save() leaves the table with the instance's row and the other rows as
\* they were, and a second call leaves the table as the first one did.
C18_SaveIdempotent ==
    (head_handled /\ head_parses) =>
        LET source == resolved_source(Head(submissions))
            link == resolved_link(Head(submissions))
            sources_once == Source_save(source, db_sources)
            links_once == Link_save(link, db_links)
        IN  /\ saved_once(sources_once, db_sources, source.id, source_row(source))
            /\ Source_save(source, sources_once) = sources_once
            /\ saved_once(links_once, db_links, link.id, link_row(link))
            /\ Link_save(link, links_once) = links_once

\* A candidate is at hand for which the first save() of the Source updates
\* a row and the first save() of the Link inserts one, with skip true.
C18_Witness ==
    /\ head_handled /\ head_parses
    /\ ~source_at_hand.is_new
    /\ link_at_hand.is_new
    /\ resolved_link(Head(submissions)).skip

\* The title as the claim has it rendered in a list of n links.
cut_title(title, n) ==
    IF n > LINKS_BEFORE_TITLE_CUTOFF /\ Len(title) > TITLE_LIMIT
    THEN SubSeq(title, 1, TITLE_LIMIT) \o "..."
    ELSE title

\* C19: in a rendered notification a title longer than TITLE_LIMIT is cut to
\* TITLE_LIMIT characters and an ellipsis when more than
\* LINKS_BEFORE_TITLE_CUTOFF links are listed, and every other title is
\* rendered as it is stored.
C19_TitlesCutOff ==
    \A r \in DOMAIN replies :
        replies[r].edited =>
            LET links == select_links(replies[r].parent, db_links)
            IN  /\ Len(replies[r].body) = Len(links)
                /\ \A i \in DOMAIN links :
                      replies[r].body[i][2] = cut_title(links[i][2], Len(links))

\* C20: a candidate handled when its Source row and its Link row are both
\* stored has is_new false for both and leaves the batch as it is; and a
\* candidate that makes its Source join the batch has both rows stored by
\* then.  So a submission has its Source queued in one cycle at most,
\* crashes and restarts included.
C20_QueuedInOneCycleAtMost ==
    [][\A i \in DOMAIN log' \ DOMAIN log :
          LET e == log'[i]
          IN  /\ (/\ e.outcome = "resolved"
                  /\ e.source \in DOMAIN db_sources
                  /\ e.name \in DOMAIN db_links)
                 => /\ ~e.source_new /\ ~e.link_new
                    /\ sources' = sources
              /\ (e.outcome = "resolved" /\ sources' # sources)
                 => /\ e.any_new
                    /\ e.source \in DOMAIN db_sources'
                    /\ e.name \in DOMAIN db_links']_vars

\* A cycle has handled again a candidate with both rows stored and nothing
\* skipped, and the batch is empty.
C20_Witness ==
    /\ pc = "dispatch"
    /\ sources = {}
    /\ notified = <<>>
    /\ \E i \in DOMAIN log :
          /\ log[i].outcome = "resolved"
          /\ ~log[i].any_new
          /\ ~log[i].skip_any

\* The stored skip flags that are true stay true in the step.
skip_rows_kept ==
    /\ \A id \in DOMAIN db_sources :
          db_sources[id].skip => id \in DOMAIN db_sources' /\ db_sources'[id].skip
    /\ \A k \in DOMAIN db_links :
          db_links[k].skip => k \in DOMAIN db_links' /\ db_links'[k].skip

\* The Source row of the id is stored with skip true.
stored_skipped(id) == id \in DOMAIN db_sources /\ db_sources[id].skip

\* C21: a stored skip flag never goes from true back to false, and a Source
\* whose row is stored with skip true neither joins the batch nor has
\* post_reply called for it.
C21_StoredSkipIsMonotonic ==
    [][/\ skip_rows_kept
       /\ \A s \in sources' \ sources : ~stored_skipped(s.id)
       /\ \A s \in sources :
             (pc = "dispatch" /\ s \notin sources' /\ notified' # notified)
                => ~stored_skipped(s.id)]_vars

\* The line of the log is about a pair that the pairing rule alone kept out
\* of the batch: neither skipped, skip_any forced.
pairing_only(e) ==
    /\ e.outcome = "resolved"
    /\ ~e.source_skip /\ ~e.link_skip
    /\ e.skip_any

\* The Link row k is one the pairing rule keeps out with its Source, and it
\* is not skipped.
unpaired_row(k) ==
    /\ ~db_links[k].skip
    /\ db_links[k].source \in DOMAIN db_sources
    /\ db_sources[db_links[k].source].subreddit # "relationship_advice"
    /\ db_links[k].subreddit # "ra_automod"

\* C22: the pairing rule does not mark the Link.  A candidate kept out of
\* the batch by the pairing rule alone has its Link stored with skip false,
\* and every notification posted later for its Source lists that Link.
C22_PairingLeavesLinkListed ==
    [][/\ \A i \in DOMAIN log' \ DOMAIN log :
             pairing_only(log'[i]) =>
                 /\ sources' = sources
                 /\ log'[i].name \in DOMAIN db_links'
                 /\ ~db_links'[log'[i].name].skip
       /\ \A r \in DOMAIN replies' :
             posted(r) =>
                 \A k \in DOMAIN db_links :
                     (db_links[k].source = replies'[r].parent /\ unpaired_row(k))
                         => \E j \in DOMAIN replies'[r].body :
                               replies'[r].body[j] =
                                   <<db_links[k].subreddit, db_links[k].title,
                                     np(db_links[k].permalink)>>]_vars

\* A reply was posted that lists, next to the Link that queued the Source, a
\* Link the pairing rule had kept out.
C22_Witness ==
    \E r \in DOMAIN replies :
        /\ Len(replies[r].body) = 2
        /\ \E k \in DOMAIN db_links :
              /\ db_links[k].source = replies[r].parent
              /\ unpaired_row(k)
              /\ \E j \in DOMAIN replies[r].body :
                    replies[r].body[j][3] = np(db_links[k].permalink)

\* C8: a store error never ends the process.
C8_StoreErrorIsRecoverable == exit_cause # "sqlite3.Error"

\* C9: the process ends only on a keyboard interrupt, and only after
\* Totes.quit and db.close.
C9_ExitOnlyAfterTeardown ==
    pc = "exited" =>
        exit_cause = "KeyboardInterrupt" /\ teardown = <<"quit", "close">>

====
